---- MODULE Spec2Model ----
(***************************************************************************)
(* Location Spy: the search handler of src/app/api/search/route.ts (GET),  *)
(* its adapters, its inline deduplication and shuffle steps, the period    *)
(* computation of src/components/Timeline.tsx and the Home component of    *)
(* src/app/page.tsx with its source filters.                               *)
(*                                                                         *)
(* Several specifications share the module:                                *)
(*   Spec            one request going through GET and its adapters        *)
(*   DedupSpec       the deduplication filter applied to arbitrary lists   *)
(*   TimelineSpec    the useMemo that groups images into periods           *)
(*   ScrapeSpec      the bing, wikimedia and archive adapters on upstream  *)
(*                   answers, followed by GET's merge                      *)
(*   ConcurrentSpec  two requests handled at the same time                 *)
(*   PageSpec        Home: searches started and settled in any order       *)
(*   FilterSpec      Home: source filter clicks followed by a search       *)
(***************************************************************************)
EXTENDS Integers, Sequences, FiniteSets, TLC

VARIABLES
    location,      \* GET: searchParams.get('location'), "" when missing or empty
    sourcesParam,  \* GET: the identifiers of the sources parameter, <<>> when missing or empty
    hpc,           \* GET: "start", "waiting" (at await Promise.all) or "done"
    searchPromises, \* GET: the sources whose scrape call was pushed, in push order
    adapter,       \* GET: per source, the state of its scrape call and the list it resolved to
    aborted,       \* GET: whether the caller has aborted the request (request.signal)
    response,      \* GET: the NextResponse produced
    dIn, dOut, dAgain, dMixed, dpc,  \* DedupSpec: input list, output list, output of a second pass, shuffled output, position
    tImages, tNow, tSorted, tPeriods, tpc,  \* TimelineSpec: props.images, current year, sortedImages, periods, position
    sSource, sPage, sImages, sMerged, spc,  \* ScrapeSpec: adapter, upstream answer, its images, GET's shuffled list, position
    cImages, cOut, cpc,        \* ConcurrentSpec: per request, allImages, the images answered, position
    pImages, pLoading, pError, pSearchedLocation,   \* Home: useState values
    pActiveSources, pRecentSearches,                \* Home: useState values
    pStorage,                  \* localStorage item 'locationspy-recent-searches'
    pFetches,                  \* handleSearch calls suspended at an await, oldest first
    pClicks                    \* Home: searches started and filter buttons clicked so far

vars == <<location, sourcesParam, hpc, searchPromises, adapter, aborted, response,
          dIn, dOut, dAgain, dMixed, dpc,
          tImages, tNow, tSorted, tPeriods, tpc,
          sSource, sPage, sImages, sMerged, spc,
          cImages, cOut, cpc,
          pImages, pLoading, pError, pSearchedLocation, pActiveSources,
          pRecentSearches, pStorage, pFetches, pClicks>>

handlerVars == <<location, sourcesParam, hpc, searchPromises, adapter, aborted, response>>
dedupVars == <<dIn, dOut, dAgain, dMixed, dpc>>
timelineVars == <<tImages, tNow, tSorted, tPeriods, tpc>>
scrapeVars == <<sSource, sPage, sImages, sMerged, spc>>
concurrentVars == <<cImages, cOut, cpc>>
pageVars == <<pImages, pLoading, pError, pSearchedLocation, pActiveSources,
              pRecentSearches, pStorage, pFetches, pClicks>>

\* the values of the variables of a specification that is not running
HandlerOff ==
    /\ location = "" /\ sourcesParam = <<>> /\ hpc = "off"
    /\ searchPromises = <<>>
    /\ aborted = FALSE

DedupOff ==
    dIn = <<>> /\ dOut = <<>> /\ dAgain = <<>> /\ dMixed = <<>> /\ dpc = "off"

ScrapeOff ==
    sSource = "" /\ sPage = <<>> /\ sImages = <<>> /\ sMerged = <<>> /\ spc = "off"

ConcurrentOff ==
    cImages = <<>> /\ cOut = <<>> /\ cpc = <<>>

PageOff ==
    /\ pImages = <<>> /\ pLoading = FALSE /\ pError = "" /\ pSearchedLocation = ""
    /\ pActiveSources = <<>> /\ pRecentSearches = <<>> /\ pStorage = <<>>
    /\ pFetches = <<>> /\ pClicks = 0

(***************************************************************************)
(* Bounds of the model.                                                    *)
(***************************************************************************)
MaxPerAdapter == 2     \* records one adapter call resolves to
MaxList == 3           \* length of a list given to the deduplication step in DedupSpec
MaxImages == 4         \* length of the images prop in TimelineSpec
MinCurrentYear == 2025 \* earliest year the component runs in (Next.js 16)
MaxCurrentYear == 2026

(***************************************************************************)
(* Values.                                                                 *)
(***************************************************************************)
\* A JavaScript string is a sequence of one-character strings; data.murl of
\* the Bing adapter is whatever JSON.parse produced, e.g. a number.
Str(chars) == [type |-> "string", chars |-> chars]
NotAString == [type |-> "number", chars |-> <<>>]

\* year?: number
Year(y) == [defined |-> TRUE, val |-> y]
NoYear == [defined |-> FALSE, val |-> 0]

ImageResult(id, url, source, year) ==
    [id |-> id, url |-> url, source |-> source, year |-> year]

SeqsUpTo(S, n) == UNION {[1..k -> S] : k \in 0..n}

Range(s) == {s[i] : i \in 1..Len(s)}

\* Array.prototype.includes
Includes(arr, x) == \E i \in 1..Len(arr) : arr[i] = x

RECURSIVE Flat(_)
\* results.flat()
Flat(lists) ==
    IF lists = <<>> THEN <<>> ELSE Head(lists) \o Flat(Tail(lists))

(***************************************************************************)
(* The deduplication filter of GET.                                        *)
(***************************************************************************)
RECURSIVE SplitOn(_, _)
\* String.prototype.split(sep) for a one-character separator: the pieces
\* between the separators, in order.
SplitOn(chars, sep) ==
    IF \A i \in 1..Len(chars) : chars[i] # sep
    THEN <<chars>>
    ELSE LET k == CHOOSE i \in 1..Len(chars) :
                      chars[i] = sep /\ \A j \in 1..(i - 1) : chars[j] # sep
         IN  <<SubSeq(chars, 1, k - 1)>> \o SplitOn(SubSeq(chars, k + 1, Len(chars)), sep)

\* img.url.split('?') throws a TypeError when url is not a string
UrlSplits(img) == img.url.type = "string"

KeyWholeUrl(img) == img.url.chars

\* const key = img.url.split('?')[0]
DedupKey(img) == SplitOn(img.url.chars, "?")[1]

RECURSIVE FilterSeen(_, _)
\* allImages.filter(img => { if (seen.has(key)) return false; seen.add(key); return true })
FilterSeen(images, seen) ==
    IF images = <<>> THEN <<>>
    ELSE LET img == Head(images)
             key == DedupKey(img)
         IN  IF key \in seen
             THEN FilterSeen(Tail(images), seen)
             ELSE <<img>> \o FilterSeen(Tail(images), seen \cup {key})

RECURSIVE FilterSeenLast(_, _)
FilterSeenLast(images, seen) ==
    IF images = <<>> THEN <<>>
    ELSE LET img == images[Len(images)]
             key == DedupKey(img)
             front == SubSeq(images, 1, Len(images) - 1)
         IN  IF key \in seen
             THEN FilterSeenLast(front, seen)
             ELSE FilterSeenLast(front, seen \cup {key}) \o <<img>>

DeduplicateLastWins(allImages) == FilterSeenLast(allImages, {})

RECURSIVE FilterSeenToggle(_, _)
FilterSeenToggle(images, seen) ==
    IF images = <<>> THEN <<>>
    ELSE LET img == Head(images)
             key == DedupKey(img)
         IN  IF key \in seen
             THEN FilterSeenToggle(Tail(images), seen \ {key})
             ELSE <<img>> \o FilterSeenToggle(Tail(images), seen \cup {key})

DeduplicateToggle(allImages) == FilterSeenToggle(allImages, {})

DeduplicateCanonicalising(allImages) ==
    LET kept == FilterSeen(allImages, {})
    IN  [k \in 1..Len(kept) |-> [kept[k] EXCEPT !.url = Str(DedupKey(kept[k]))]]

\* const seen = new Set<string>(); const uniqueImages = allImages.filter(...)
Deduplicate(allImages) == FilterSeen(allImages, {})

\* whether the filter callback throws on some record
DedupThrows(allImages) == \E i \in 1..Len(allImages) : ~UrlSplits(allImages[i])

(***************************************************************************)
(* The shuffle of GET: uniqueImages.sort(() => Math.random() - 0.5).       *)
(* The engine sorts a short array by insertion; every comparison draws a   *)
(* fresh random sign, coins[<<i, j>>] being "the comparison of the i-th    *)
(* element against position j was > 0".                                    *)
(***************************************************************************)
CoinPairs(n) == {<<i, j>> : i \in 1..n, j \in 1..n}

Coins(n) == [{p \in CoinPairs(n) : p[2] < p[1]} -> BOOLEAN]

RECURSIVE RandomInsert(_, _, _, _)
RandomInsert(sorted, x, i, coins) ==
    LET j == Len(sorted)
    IN  IF j > 0 /\ coins[<<i, j>>]
        THEN Append(RandomInsert(SubSeq(sorted, 1, j - 1), x, i, coins), sorted[j])
        ELSE Append(sorted, x)

RECURSIVE RandomInsertLossy(_, _, _, _)
RandomInsertLossy(sorted, x, i, coins) ==
    LET j == Len(sorted)
    IN  IF j > 0 /\ coins[<<i, j>>]
        THEN Append(RandomInsertLossy(SubSeq(sorted, 1, j - 1), x, i, coins), x)
        ELSE Append(sorted, x)

RECURSIVE ShuffleFrom(_, _, _, _)
ShuffleFrom(sorted, images, i, coins) ==
    IF i > Len(images) THEN sorted
    ELSE ShuffleFrom(RandomInsert(sorted, images[i], i, coins), images, i + 1, coins)

RECURSIVE ShuffleLossyFrom(_, _, _, _)
ShuffleLossyFrom(sorted, images, i, coins) ==
    IF i > Len(images) THEN sorted
    ELSE ShuffleLossyFrom(RandomInsertLossy(sorted, images[i], i, coins), images, i + 1, coins)

ShuffleLossy(uniqueImages, coins) == ShuffleLossyFrom(<<>>, uniqueImages, 1, coins)

\* const shuffled = uniqueImages.sort(() => Math.random() - 0.5)
Shuffle(uniqueImages, coins) == ShuffleFrom(<<>>, uniqueImages, 1, coins)

RECURSIVE DistinctInOrder(_, _)
DistinctInOrder(xs, seen) ==
    IF xs = <<>> THEN <<>>
    ELSE IF Head(xs) \in seen
         THEN DistinctInOrder(Tail(xs), seen)
         ELSE <<Head(xs)>> \o DistinctInOrder(Tail(xs), seen \cup {Head(xs)})

SourcesOfWithRepeats(shuffled) == [i \in 1..Len(shuffled) |-> shuffled[i].source]

\* [...new Set(shuffled.map(img => img.source))]
SourcesOf(shuffled) == DistinctInOrder([i \in 1..Len(shuffled) |-> shuffled[i].source], {})

(***************************************************************************)
(* The adapters and the request.                                           *)
(***************************************************************************)
\* the order of the sources.includes(...) chain of GET
AdapterOrder ==
    <<"google", "bing", "flickr", "unsplash", "zillow", "redfin",
      "loc", "wikimedia", "archive", "nypl", "maps">>

Sources == Range(AdapterOrder)

DefaultSourcesEarlier == <<"google", "bing", "flickr", "unsplash">>

\* searchParams.get('sources') || 'google,bing,flickr,unsplash,loc,wikimedia,archive'
DefaultSources == <<"google", "bing", "flickr", "unsplash", "loc", "wikimedia", "archive">>

\* const sources = sourcesParam.split(',')
RequestedSources(param) == IF param = <<>> THEN DefaultSources ELSE param

RECURSIVE PromisesFrom(_, _)
PromisesFrom(k, sources) ==
    IF k > Len(AdapterOrder) THEN <<>>
    ELSE (IF Includes(sources, AdapterOrder[k]) THEN <<AdapterOrder[k]>> ELSE <<>>)
         \o PromisesFrom(k + 1, sources)

RECURSIVE PromisesPerIdentifier(_, _)
PromisesPerIdentifier(k, sources) ==
    IF k > Len(sources) THEN <<>>
    ELSE (IF sources[k] \in Sources THEN <<sources[k]>> ELSE <<>>)
         \o PromisesPerIdentifier(k + 1, sources)

SearchPromisesPerIdentifier(param) == PromisesPerIdentifier(1, RequestedSources(param))

SearchPromisesInRequestOrder(param) ==
    DistinctInOrder(PromisesPerIdentifier(1, RequestedSources(param)), {})

\* searchPromises: one push per source of the chain that sources includes
SearchPromises(param) == PromisesFrom(1, RequestedSources(param))

\* The requests of the model: the location and the sources parameter.
Locations == {"", "Paris"}

SourceParams ==
    { <<>>,
      <<"nosuch">>,
      <<"google", "loc">>,
      <<"loc", "bing">>,
      <<"bing", "google">>,
      <<"google", "nosuch", "google">>,
      <<"zillow">> }

\* What the upstream sites can hand to an adapter: the urls it extracts.
UpstreamUrls(s) ==
    CASE s = "google" -> {Str(<<"x", "?", "2">>), Str(<<"y">>)}
      [] s = "loc"    -> {Str(<<"z">>)}
      [] s = "bing"   -> {Str(<<"y", "?", "1">>), NotAString}
      [] OTHER        -> {}

\* images.push({ id: `${source}-${i}-${Date.now()}`, url, ..., source })
AdapterRecords(s, urls) ==
    [i \in 1..Len(urls) |-> ImageResult(<<s, i - 1>>, urls[i], s, NoYear)]

\* scrapeZillow: the imgSrc urls a results page can hold
ZillowUrls == {Str(<<"p", "_a.jpg">>), Str(<<"q", "_f.jpg">>)}

\* the src of an img element of a property card
ZillowCards == {Str(<<"c">>)}

\* /_[a-z]\.jpg/ on one piece of a url
SizeSuffix(c) == c \in {"_a.jpg", "_f.jpg"}

\* url.replace(/_[a-z]\.jpg/, '_f.jpg'): the first match is replaced
FullSize(url) ==
    IF \E k \in 1..Len(url.chars) : SizeSuffix(url.chars[k])
    THEN LET first == CHOOSE k \in 1..Len(url.chars) :
                         /\ SizeSuffix(url.chars[k])
                         /\ \A j \in 1..(k - 1) : ~SizeSuffix(url.chars[j])
         IN  Str([url.chars EXCEPT ![first] = "_f.jpg"])
    ELSE url

\* One "imgSrc" match of the page: its url, whether it is the first match of
\* its script block (j restarts at 0), and whether Date.now() has advanced by
\* a millisecond since the previous push.
ZillowMatches == [url : ZillowUrls, newBlock : BOOLEAN, tick : BOOLEAN]

\* a results page: the matches of its script blocks in document order, then its card images
ZillowPages ==
    {[matches |-> m, cards |-> c] :
        m \in SeqsUpTo(ZillowMatches, MaxPerAdapter), c \in SeqsUpTo(ZillowCards, MaxPerAdapter)}

RECURSIVE ZillowJ(_, _)
\* the loop index j of match k inside its script block
ZillowJ(matches, k) ==
    IF k = 1 \/ matches[k].newBlock THEN 0 ELSE ZillowJ(matches, k - 1) + 1

\* Date.now() at the push of match k, counted from the start of the call
ZillowMs(matches, k) == Cardinality({i \in 1..k : matches[i].tick})

\* the images of scrapeZillow: script matches, then property cards
ZillowRecords(page) ==
    [k \in 1..Len(page.matches) |->
        ImageResult(<<"zillow", ZillowJ(page.matches, k), ZillowMs(page.matches, k)>>,
                    FullSize(page.matches[k].url), "zillow", NoYear)]
    \o [i \in 1..Len(page.cards) |->
        ImageResult(<<"zillow-img", i - 1, ZillowMs(page.matches, Len(page.matches))>>,
                    page.cards[i], "zillow", NoYear)]

\* the lists an adapter's try block can return
AdapterOutputs(s) ==
    IF s = "zillow"
    THEN {ZillowRecords(page) :
            page \in {pg \in ZillowPages : Len(pg.matches) + Len(pg.cards) <= MaxPerAdapter}}
    ELSE {AdapterRecords(s, urls) : urls \in SeqsUpTo(UpstreamUrls(s), MaxPerAdapter)}

Idle == [st |-> "idle", images |-> <<>>]

NoResponse == [status |-> 0, images |-> <<>>, count |-> 0, sources |-> <<>>, error |-> ""]

\* NextResponse.json({ error }, { status })
ErrorResponse(status, error) ==
    [status |-> status, images |-> <<>>, count |-> 0, sources |-> <<>>, error |-> error]

\* NextResponse.json({ images: shuffled, count: shuffled.length, sources: [...] })
OkResponse(shuffled) ==
    [status |-> 200, images |-> shuffled, count |-> Len(shuffled),
     sources |-> SourcesOf(shuffled), error |-> ""]

Settled(s) == adapter[s].st \in {"returned", "failed"}

Invoked(s) == adapter[s].st # "idle"

JoinFirst == \E s \in Sources : Settled(s)

JoinOrAborted == aborted \/ \A s \in Sources : Invoked(s) => Settled(s)

\* await Promise.all(searchPromises): resumes once every promise has resolved
JoinReady == \A s \in Sources : Invoked(s) => Settled(s)

\* const allImages = results.flat(), results in the order of searchPromises
AllImages ==
    Flat([k \in 1..Len(searchPromises) |-> adapter[searchPromises[k]].images])

Init ==
    /\ location \in Locations
    /\ sourcesParam \in SourceParams
    /\ hpc = "start"
    /\ searchPromises = <<>>
    /\ adapter = [s \in Sources |-> Idle]
    /\ aborted = FALSE
    /\ response = NoResponse
    /\ DedupOff /\ ScrapeOff /\ ConcurrentOff /\ PageOff
    /\ tImages = <<>> /\ tNow = MinCurrentYear /\ tSorted = <<>> /\ tPeriods = <<>> /\ tpc = "off"

GET_BeginLateCheck ==
    /\ hpc = "start"
    /\ searchPromises' = SearchPromises(sourcesParam)
    /\ adapter' = [s \in Sources |->
                      IF Includes(SearchPromises(sourcesParam), s)
                      THEN [st |-> "running", images |-> <<>>]
                      ELSE adapter[s]]
    /\ IF location = ""
       THEN response' = ErrorResponse(400, "Location is required") /\ hpc' = "done"
       ELSE hpc' = "waiting" /\ UNCHANGED response
    /\ UNCHANGED <<location, sourcesParam, aborted, dedupVars, timelineVars,
                   scrapeVars, concurrentVars, pageVars>>

\* GET up to `await Promise.all`: the location check, then one adapter call
\* per source of the chain; each call runs to its first await and suspends.
GET_Begin ==
    /\ hpc = "start"
    /\ \/ /\ location = ""
          /\ response' = ErrorResponse(400, "Location is required")
          /\ hpc' = "done"
          /\ UNCHANGED <<searchPromises, adapter>>
       \/ /\ location # ""
          /\ searchPromises' = SearchPromises(sourcesParam)
          /\ adapter' = [s \in Sources |->
                            IF Includes(SearchPromises(sourcesParam), s)
                            THEN [st |-> "running", images |-> <<>>]
                            ELSE adapter[s]]
          /\ hpc' = "waiting"
          /\ UNCHANGED response
    /\ UNCHANGED <<location, sourcesParam, aborted, dedupVars, timelineVars,
                   scrapeVars, concurrentVars, pageVars>>

\* an adapter's try block runs to its return
AdapterReturn(s) ==
    /\ adapter[s].st = "running"
    /\ \E images \in AdapterOutputs(s) :
          adapter' = [adapter EXCEPT ![s] = [st |-> "returned", images |-> images]]
    /\ UNCHANGED <<location, sourcesParam, hpc, searchPromises, aborted, response,
                   dedupVars, timelineVars,
                   scrapeVars, concurrentVars, pageVars>>

\* an adapter's catch block: console.error(...); return []
AdapterFail(s) ==
    /\ adapter[s].st = "running"
    /\ adapter' = [adapter EXCEPT ![s] = [st |-> "failed", images |-> <<>>]]
    /\ UNCHANGED <<location, sourcesParam, hpc, searchPromises, aborted, response,
                   dedupVars, timelineVars,
                   scrapeVars, concurrentVars, pageVars>>

\* GET after the await: flat, deduplicate, shuffle, respond; a throw in the
\* try block is answered by the catch with 500.
GET_Respond ==
    /\ hpc = "waiting"
    /\ JoinReady
    /\ IF DedupThrows(AllImages)
       THEN response' = ErrorResponse(500, "Search failed")
       ELSE LET uniqueImages == Deduplicate(AllImages)
            IN  \E coins \in Coins(Len(uniqueImages)) :
                   response' = OkResponse(Shuffle(uniqueImages, coins))
    /\ hpc' = "done"
    /\ UNCHANGED <<location, sourcesParam, searchPromises, adapter, aborted,
                   dedupVars, timelineVars,
                   scrapeVars, concurrentVars, pageVars>>

\* the caller aborts the request; GET never reads request.signal
Abort ==
    /\ hpc # "done"
    /\ ~aborted
    /\ aborted' = TRUE
    /\ UNCHANGED <<location, sourcesParam, hpc, searchPromises, adapter, response,
                   dedupVars, timelineVars,
                   scrapeVars, concurrentVars, pageVars>>

Next ==
    \/ GET_Begin
    \/ \E s \in Sources : AdapterReturn(s)
    \/ \E s \in Sources : AdapterFail(s)
    \/ GET_Respond
    \/ Abort

Spec == Init /\ [][Next]_vars

(***************************************************************************)
(* DedupSpec: the filter on arbitrary record lists.                        *)
(***************************************************************************)
DedupSources == {"loc", "google"}

DedupUrls ==
    { Str(<<"x", "?", "w", "1">>), Str(<<"x", "?", "w", "2">>), Str(<<"x">>),
      Str(<<"y">>), Str(<<"?", "x">>), NotAString }

\* the records of a list have distinct ids
ListOf(pairs) ==
    [i \in 1..Len(pairs) |-> ImageResult(<<pairs[i][1], i - 1>>, pairs[i][2], pairs[i][1], NoYear)]

DInit ==
    /\ dIn \in {ListOf(p) : p \in SeqsUpTo(DedupSources \X DedupUrls, MaxList)}
    /\ dOut = <<>>
    /\ dAgain = <<>>
    /\ dMixed = <<>>
    /\ dpc = "input"
    /\ ScrapeOff /\ ConcurrentOff /\ PageOff
    /\ location = "" /\ sourcesParam = <<>> /\ hpc = "off"
    /\ searchPromises = <<>>
    /\ adapter = [s \in Sources |-> Idle]
    /\ aborted = FALSE
    /\ response = NoResponse
    /\ tImages = <<>> /\ tNow = MinCurrentYear /\ tSorted = <<>> /\ tPeriods = <<>> /\ tpc = "off"

\* the filter of GET applied to dIn
D_Filter ==
    /\ dpc = "input"
    /\ IF DedupThrows(dIn)
       THEN dOut' = <<>> /\ dpc' = "threw"
       ELSE dOut' = Deduplicate(dIn) /\ dpc' = "done"
    /\ UNCHANGED <<dIn, dAgain, dMixed, handlerVars, timelineVars,
                   scrapeVars, concurrentVars, pageVars>>

\* the filter of GET applied to its own output
D_FilterAgain ==
    /\ dpc = "done"
    /\ dAgain' = Deduplicate(dOut)
    /\ dpc' = "twice"
    /\ UNCHANGED <<dIn, dOut, dMixed, handlerVars, timelineVars,
                   scrapeVars, concurrentVars, pageVars>>

\* the shuffle of GET applied to the filter's output
D_Mix ==
    /\ dpc = "done"
    /\ \E coins \in Coins(Len(dOut)) : dMixed' = Shuffle(dOut, coins)
    /\ dpc' = "mixed"
    /\ UNCHANGED <<dIn, dOut, dAgain, handlerVars, timelineVars,
                   scrapeVars, concurrentVars, pageVars>>

DNext == D_Filter \/ D_FilterAgain \/ D_Mix

DedupSpec == DInit /\ [][DNext]_vars

(***************************************************************************)
(* Timeline.tsx: the periods useMemo.                                      *)
(***************************************************************************)
UndatedLabel == "Modern / Unknown Date"

\* const periodDefs = [...]
PeriodDefs(now) ==
    << [label |-> "2020s", start |-> 2020, end |-> now],
       [label |-> "2010s", start |-> 2010, end |-> 2019],
       [label |-> "2000s", start |-> 2000, end |-> 2009],
       [label |-> "1990s", start |-> 1990, end |-> 1999],
       [label |-> "1980s", start |-> 1980, end |-> 1989],
       [label |-> "1970s", start |-> 1970, end |-> 1979],
       [label |-> "1960s", start |-> 1960, end |-> 1969],
       [label |-> "1950s", start |-> 1950, end |-> 1959],
       [label |-> "1940s", start |-> 1940, end |-> 1949],
       [label |-> "1930s", start |-> 1930, end |-> 1939],
       [label |-> "1920s", start |-> 1920, end |-> 1929],
       [label |-> "1910s", start |-> 1910, end |-> 1919],
       [label |-> "1900s", start |-> 1900, end |-> 1909],
       [label |-> "1800s", start |-> 1800, end |-> 1899],
       [label |-> "Earlier", start |-> 0, end |-> 1799] >>

\* !img.year: undefined and 0 are both falsy
NoYearTest(img) == ~img.year.defined \/ img.year.val = 0

\* the comparator of [...images].sort((a, b) => ...)
CompareYears(a, b) ==
    IF NoYearTest(a) /\ NoYearTest(b) THEN 0
    ELSE IF NoYearTest(a) THEN 1
    ELSE IF NoYearTest(b) THEN -1
    ELSE b.year.val - a.year.val

RECURSIVE InsertImage(_, _)
\* Array.prototype.sort is stable: x goes behind every element that does not
\* compare greater than it
InsertImage(sorted, x) ==
    LET n == Len(sorted)
    IN  IF n > 0 /\ CompareYears(sorted[n], x) > 0
        THEN Append(InsertImage(SubSeq(sorted, 1, n - 1), x), sorted[n])
        ELSE Append(sorted, x)

RECURSIVE SortImagesFrom(_, _, _)
SortImagesFrom(sorted, images, i) ==
    IF i > Len(images) THEN sorted
    ELSE SortImagesFrom(InsertImage(sorted, images[i]), images, i + 1)

\* const sortedImages = [...images].sort(...)
SortedImages(images) == SortImagesFrom(<<>>, images, 1)

\* periodDefs.find(p => img.year >= p.start && img.year <= p.end): the index
\* of the first match, 0 for undefined
FindPeriod(defs, year) ==
    IF \E k \in 1..Len(defs) : year >= defs[k].start /\ year <= defs[k].end
    THEN CHOOSE k \in 1..Len(defs) :
            /\ year >= defs[k].start /\ year <= defs[k].end
            /\ \A j \in 1..(k - 1) : ~(year >= defs[j].start /\ year <= defs[j].end)
    ELSE 0

\* result.find(r => r.label === period.label): index of the first match, 0 for undefined
FindResult(result, label) ==
    IF \E k \in 1..Len(result) : result[k].label = label
    THEN CHOOSE k \in 1..Len(result) :
            result[k].label = label /\ \A j \in 1..(k - 1) : result[j].label # label
    ELSE 0

AddToPeriodAlways(result, def, img) ==
    Append(result, [label |-> def.label, startYear |-> def.start,
                    endYear |-> def.end, images |-> <<img>>])

\* one iteration of the grouping loop on the dated branch
AddToPeriod(result, def, img) ==
    LET k == FindResult(result, def.label)
    IN  IF k = 0
        THEN Append(result, [label |-> def.label, startYear |-> def.start,
                             endYear |-> def.end, images |-> <<img>>])
        ELSE [result EXCEPT ![k].images = Append(@, img)]

RECURSIVE GroupFrom(_, _, _, _, _)
\* for (const img of sortedImages) {...}: the pair <<result, undated>>
GroupFrom(result, undated, sorted, i, defs) ==
    IF i > Len(sorted) THEN <<result, undated>>
    ELSE LET img == sorted[i]
         IN  IF NoYearTest(img)
             THEN GroupFrom(result, Append(undated, img), sorted, i + 1, defs)
             ELSE LET k == FindPeriod(defs, img.year.val)
                  IN  IF k # 0
                      THEN GroupFrom(AddToPeriod(result, defs[k], img), undated, sorted, i + 1, defs)
                      ELSE GroupFrom(result, undated, sorted, i + 1, defs)

\* if (undated.length > 0) result.push({ label: 'Modern / Unknown Date', startYear: now, ... })
WithUndated(result, undated, now) ==
    IF Len(undated) > 0
    THEN Append(result, [label |-> UndatedLabel, startYear |-> now,
                         endYear |-> now, images |-> undated])
    ELSE result

ComparePeriodsAscending(a, b) == a.startYear - b.startYear

\* the comparator of result.sort((a, b) => b.startYear - a.startYear)
ComparePeriods(a, b) == b.startYear - a.startYear

RECURSIVE InsertPeriod(_, _)
InsertPeriod(sorted, x) ==
    LET n == Len(sorted)
    IN  IF n > 0 /\ ComparePeriods(sorted[n], x) > 0
        THEN Append(InsertPeriod(SubSeq(sorted, 1, n - 1), x), sorted[n])
        ELSE Append(sorted, x)

RECURSIVE SortPeriodsFrom(_, _, _)
SortPeriodsFrom(sorted, result, i) ==
    IF i > Len(result) THEN sorted
    ELSE SortPeriodsFrom(InsertPeriod(sorted, result[i]), result, i + 1)

\* the value of the periods useMemo
Periods(images, now) ==
    LET grouped == GroupFrom(<<>>, <<>>, SortedImages(images), 1, PeriodDefs(now))
    IN  SortPeriodsFrom(<<>>, WithUndated(grouped[1], grouped[2], now), 1)

\* the year values of the images prop: none, 0, negative, one per kind of
\* period, and a year after the current one
YearValues(now) ==
    {NoYear, Year(-1), Year(0), Year(1750), Year(1923), Year(1995), Year(2021), Year(now + 1)}

TimelineImages(years) ==
    [i \in 1..Len(years) |-> ImageResult(<<"archive", i - 1>>, Str(<<"u">>), "archive", years[i])]

TInit ==
    /\ tNow \in MinCurrentYear..MaxCurrentYear
    /\ tImages \in {TimelineImages(ys) : ys \in SeqsUpTo(YearValues(tNow), MaxImages)}
    /\ tSorted = <<>>
    /\ tPeriods = <<>>
    /\ tpc = "props"
    /\ location = "" /\ sourcesParam = <<>> /\ hpc = "off"
    /\ searchPromises = <<>>
    /\ adapter = [s \in Sources |-> Idle]
    /\ aborted = FALSE
    /\ response = NoResponse
    /\ DedupOff /\ ScrapeOff /\ ConcurrentOff /\ PageOff

\* the useMemo runs on render
T_Render ==
    /\ tpc = "props"
    /\ tSorted' = SortedImages(tImages)
    /\ tPeriods' = Periods(tImages, tNow)
    /\ tpc' = "rendered"
    /\ UNCHANGED <<tImages, tNow, handlerVars, dedupVars,
                   scrapeVars, concurrentVars, pageVars>>

TNext == T_Render

TimelineSpec == TInit /\ [][TNext]_vars

(***************************************************************************)
(* ScrapeSpec: one adapter (bing, wikimedia or archive) applied to an      *)
(* upstream answer, followed by GET's deduplication and shuffle.           *)
(***************************************************************************)
MaxCandidates == 2     \* candidates in one upstream answer

\* a property that is undefined (missing attribute, missing JSON member)
NoUrl == [type |-> "undefined", chars |-> <<>>]

\* if (data.murl), if (src), if (imageinfo?.url): undefined and '' are falsy
Truthy(url) == url.type = "number" \/ (url.type = "string" /\ url.chars # <<>>)

\* isHistorical?: boolean
Hist(b) == [defined |-> TRUE, val |-> b]
NoHist == [defined |-> FALSE, val |-> FALSE]

ScrapedResult(id, url, source, year, isHistorical) ==
    [id |-> id, url |-> url, source |-> source, year |-> year, isHistorical |-> isHistorical]

\* parseInt on the year texts of the model ("" is a missing member)
ParseInt(text) ==
    CASE text = "0" -> 0
      [] text = "1923" -> 1923
      [] text = "2015" -> 2015

\* text.match(/\b(1[0-9]{3}|20[0-2][0-9])\b/); if (yearMatch) year = parseInt(yearMatch[1])
YearMatch(text) ==
    IF text \in {"1923", "2015"} THEN Year(ParseInt(text)) ELSE NoYear

\* scrapeBingImages: data.murl of the a.iusc elements, src of the img.mimg elements
BingMurls == {NoUrl, Str(<<>>), Str(<<"y", "?", "1">>), NotAString}
BingSrcs == {NoUrl, Str(<<"data:", "1">>), Str(<<"m">>)}

BingPages ==
    {pg \in [iusc : SeqsUpTo(BingMurls, MaxCandidates), mimg : SeqsUpTo(BingSrcs, MaxCandidates)] :
        Len(pg.iusc) + Len(pg.mimg) <= MaxCandidates}

RECURSIVE BingIusc(_, _)
\* $('a.iusc').each((i, el) => { ... if (data.murl) images.push(...) })
BingIusc(murls, i) ==
    IF i > Len(murls) THEN <<>>
    ELSE (IF Truthy(murls[i])
          THEN <<ScrapedResult(<<"bing", i - 1>>, murls[i], "bing", NoYear, NoHist)>>
          ELSE <<>>)
         \o BingIusc(murls, i + 1)

RECURSIVE BingMimg(_, _)
\* $('img.mimg').each((i, el) => { ... if (src && !src.startsWith('data:')) images.push(...) })
BingMimg(srcs, i) ==
    IF i > Len(srcs) THEN <<>>
    ELSE (IF Truthy(srcs[i]) /\ srcs[i].chars[1] # "data:"
          THEN <<ScrapedResult(<<"bing", i - 1>>, srcs[i], "bing", NoYear, NoHist)>>
          ELSE <<>>)
         \o BingMimg(srcs, i + 1)

ScrapeBingUnguarded(page) ==
    [i \in 1..Len(page.iusc) |->
        ScrapedResult(<<"bing", i - 1>>, page.iusc[i], "bing", NoYear, NoHist)]

\* the images of scrapeBingImages; the img tags are a fallback
ScrapeBing(page) ==
    IF BingIusc(page.iusc, 1) = <<>> THEN BingMimg(page.mimg, 1) ELSE BingIusc(page.iusc, 1)

\* scrapeWikimediaCommons: per search hit, imageinfo.url (undefined also when
\* the info request gives no pages) and extmetadata.DateTimeOriginal.value
WikimediaItems == [url : {NoUrl, Str(<<"w">>)}, date : {"", "1923", "2015", "undated"}]

RECURSIVE WikimediaPush(_, _, _)
WikimediaPush(images, items, k) ==
    IF k > Len(items) THEN images
    ELSE IF Truthy(items[k].url)
         THEN LET year == IF items[k].date # "" THEN YearMatch(items[k].date) ELSE NoYear
                  \* const isHistorical = year ? year < 2000 : false
                  isHistorical == IF year.defined /\ year.val # 0 THEN year.val < 2000 ELSE FALSE
              IN  WikimediaPush(
                      Append(images, ScrapedResult(<<"wikimedia", Len(images)>>, items[k].url,
                                                   "wikimedia", year, Hist(isHistorical))),
                      items, k + 1)
         ELSE WikimediaPush(images, items, k + 1)

ScrapeWikimedia(page) == WikimediaPush(<<>>, page, 1)

\* scrapeInternetArchive: identifier, year and date of a doc
ArchiveItems == [identifier : {"a", "b"}, year : {"", "0", "1923", "2015"}, date : {"", "2015"}]

\* images.push({ id: `archive-${identifier}-...`, url: fullUrl, ..., year, isHistorical: true })
ScrapeArchive(page) ==
    [k \in 1..Len(page) |->
        LET item == page[k]
            year == IF item.year # "" THEN Year(ParseInt(item.year))
                    ELSE IF item.date # "" THEN YearMatch(item.date)
                    ELSE NoYear
        IN  ScrapedResult(<<"archive", item.identifier>>,
                          Str(<<"archive.org/download/", item.identifier, "/", item.identifier, ".jpg">>),
                          "archive", year, Hist(TRUE))]

ScrapeSources == {"bing", "wikimedia", "archive"}

\* what the upstream site can answer
UpstreamPages(s) ==
    CASE s = "bing" -> BingPages
      [] s = "wikimedia" -> SeqsUpTo(WikimediaItems, MaxCandidates)
      [] s = "archive" -> SeqsUpTo(ArchiveItems, MaxCandidates)

Scrape(s, page) ==
    CASE s = "bing" -> ScrapeBing(page)
      [] s = "wikimedia" -> ScrapeWikimedia(page)
      [] s = "archive" -> ScrapeArchive(page)

TimelineOff ==
    tImages = <<>> /\ tNow = MinCurrentYear /\ tSorted = <<>> /\ tPeriods = <<>> /\ tpc = "off"

SInit ==
    /\ sSource \in ScrapeSources
    /\ sPage \in UpstreamPages(sSource)
    /\ sImages = <<>>
    /\ sMerged = <<>>
    /\ spc = "page"
    /\ HandlerOff /\ adapter = [s \in Sources |-> Idle] /\ response = NoResponse
    /\ DedupOff /\ TimelineOff /\ ConcurrentOff /\ PageOff

\* the adapter's try block on the upstream answer
S_Scrape ==
    /\ spc = "page"
    /\ sImages' = Scrape(sSource, sPage)
    /\ spc' = "scraped"
    /\ UNCHANGED <<sSource, sPage, sMerged, handlerVars, dedupVars, timelineVars,
                   concurrentVars, pageVars>>

\* GET on the adapter's list: deduplicate and shuffle, or throw
S_Merge ==
    /\ spc = "scraped"
    /\ IF DedupThrows(sImages)
       THEN sMerged' = <<>> /\ spc' = "threw"
       ELSE /\ \E coins \in Coins(Len(Deduplicate(sImages))) :
                  sMerged' = Shuffle(Deduplicate(sImages), coins)
            /\ spc' = "merged"
    /\ UNCHANGED <<sSource, sPage, sImages, handlerVars, dedupVars, timelineVars,
                   concurrentVars, pageVars>>

SNext == S_Scrape \/ S_Merge

ScrapeSpec == SInit /\ [][SNext]_vars

(***************************************************************************)
(* ConcurrentSpec: two calls of GET in one server process, each past its   *)
(* adapters, interleaved at the await.                                     *)
(***************************************************************************)
MaxConcurrentImages == 2   \* records the adapters of one call resolved to

Calls == {1, 2}

ConcurrentUrls == {Str(<<"x", "?", "1">>), Str(<<"x">>), Str(<<"y">>), NotAString}

ConcurrentLists ==
    {[i \in 1..Len(urls) |-> ImageResult(<<"google", i - 1>>, urls[i], "google", NoYear)] :
        urls \in SeqsUpTo(ConcurrentUrls, MaxConcurrentImages)}

SeenOfProcess(r) ==
    UNION {IF cpc[q] = "done" /\ cOut[q].status = 200
           THEN {DedupKey(cOut[q].images[k]) : k \in 1..Len(cOut[q].images)}
           ELSE {} : q \in Calls \ {r}}

\* const seen = new Set<string>() inside GET: empty at every call
SeenOf(r) == {}

CInit ==
    /\ cImages \in [Calls -> ConcurrentLists]
    /\ cOut = [r \in Calls |-> NoResponse]
    /\ cpc = [r \in Calls |-> "start"]
    /\ HandlerOff /\ adapter = [s \in Sources |-> Idle] /\ response = NoResponse
    /\ DedupOff /\ TimelineOff /\ ScrapeOff /\ PageOff

\* call r runs up to await Promise.all(searchPromises)
C_Begin(r) ==
    /\ cpc[r] = "start"
    /\ cpc' = [cpc EXCEPT ![r] = "waiting"]
    /\ UNCHANGED <<cImages, cOut, handlerVars, dedupVars, timelineVars, scrapeVars, pageVars>>

\* call r after the await: flat, deduplicate with its own seen set, shuffle, respond
C_Respond(r) ==
    /\ cpc[r] = "waiting"
    /\ IF DedupThrows(cImages[r])
       THEN cOut' = [cOut EXCEPT ![r] = ErrorResponse(500, "Search failed")]
       ELSE LET uniqueImages == FilterSeen(cImages[r], SeenOf(r))
            IN  \E coins \in Coins(Len(uniqueImages)) :
                   cOut' = [cOut EXCEPT ![r] = OkResponse(Shuffle(uniqueImages, coins))]
    /\ cpc' = [cpc EXCEPT ![r] = "done"]
    /\ UNCHANGED <<cImages, handlerVars, dedupVars, timelineVars, scrapeVars, pageVars>>

CNext == \E r \in Calls : C_Begin(r) \/ C_Respond(r)

ConcurrentSpec == CInit /\ [][CNext]_vars

(***************************************************************************)
(* PageSpec and FilterSpec: the Home component of src/app/page.tsx with    *)
(* the SourceFilters component. PageSpec starts searches (form and recent  *)
(* search buttons) and receives their answers in any order; FilterSpec     *)
(* clicks the source filters and searches with the sources left active.    *)
(***************************************************************************)
MaxSearches == 3       \* searches started in PageSpec
MaxClicks == 5         \* filter clicks and searches made in FilterSpec

\* const MAX_RECENT_SEARCHES = 5
MAX_RECENT_SEARCHES == 5

\* useState<ImageSource[]>([...])
InitialActiveSources ==
    <<"google", "bing", "flickr", "unsplash", "loc", "wikimedia", "archive">>

MODERN_SOURCES == <<"google", "bing", "flickr", "unsplash", "zillow", "redfin">>
HISTORICAL_SOURCES == <<"loc", "wikimedia", "archive", "nypl", "maps">>

\* the locations the user types or clicks
PageLocations == {"Paris", "Rome"}

\* the source buttons the user clicks one by one
ToggleChoices == {"google", "maps"}

\* localStorage.getItem: null, or the JSON text of a list written by setItem
NoItem == [saved |-> FALSE, value |-> <<>>]
Stringify(list) == [saved |-> TRUE, value |-> list]
Parse(item) == item.value

\* what an earlier visit can have left in localStorage
StoredSearches ==
    {NoItem, Stringify(<<"Rome", "Oslo", "Lima", "Bonn", "Kiev">>)}

Without(list, x) ==
    LET Other(y) == y # x
    IN  SelectSeq(list, Other)

AddRecentSearchUnfiltered(recentSearches, loc) ==
    SubSeq(<<loc>> \o recentSearches, 1,
           IF Len(recentSearches) + 1 < MAX_RECENT_SEARCHES
           THEN Len(recentSearches) + 1 ELSE MAX_RECENT_SEARCHES)

\* [location, ...recentSearches.filter(s => s !== location)].slice(0, MAX_RECENT_SEARCHES)
AddRecentSearch(recentSearches, loc) ==
    LET updated == <<loc>> \o Without(recentSearches, loc)
    IN  SubSeq(updated, 1,
               IF Len(updated) < MAX_RECENT_SEARCHES THEN Len(updated) ELSE MAX_RECENT_SEARCHES)

RECURSIVE JoinComma(_)
\* activeSources.join(',')
JoinComma(arr) ==
    IF arr = <<>> THEN <<>>
    ELSE IF Len(arr) = 1 THEN <<arr[1]>>
    ELSE <<arr[1], ",">> \o JoinComma(Tail(arr))

\* the sources parameter as GET sees it: the pieces of split(','), <<>> for
\* the empty string (which GET replaces by its default)
ParamOf(joined) ==
    IF joined = <<>> THEN <<>>
    ELSE LET pieces == SplitOn(joined, ",")
         IN  [k \in 1..Len(pieces) |-> IF pieces[k] = <<>> THEN "" ELSE pieces[k][1]]

\* the adapters GET calls for a fetch of handleSearch
InvokedFor(fetch) == Range(SearchPromises(ParamOf(fetch.sources)))

\* an image of the answer to a search for loc
ImageFor(loc) == [for |-> loc, id |-> 0]

\* what awaits of fetch and res.json() can give: the JSON of GET's 200
\* answer (no image at all when no adapter was called), the JSON of its 500
\* answer, or an exception
Outcomes(fetch) ==
    {[kind |-> "data", error |-> "", images |-> <<>>],
     [kind |-> "data", error |-> "Search failed", images |-> <<>>],
     [kind |-> "throw", error |-> "", images |-> <<>>]}
    \cup (IF InvokedFor(fetch) = {} THEN {}
          ELSE {[kind |-> "data", error |-> "", images |-> <<ImageFor(fetch.location)>>]})

\* onToggleSource: setActiveSources(prev => prev.includes(source) ? prev.filter(...) : [...prev, source])
ToggleSource(prev, source) ==
    IF Includes(prev, source) THEN Without(prev, source) ELSE Append(prev, source)

RECURSIVE ToggleEachAlways(_, _, _, _, _)
ToggleEachAlways(prev, group, k, activeSources, allActive) ==
    IF k > Len(group) THEN prev
    ELSE ToggleEachAlways(ToggleSource(prev, group[k]), group, k + 1, activeSources, allActive)

RECURSIVE ToggleEach(_, _, _, _, _)
\* GROUP.forEach(s => { if (activeSources.includes(s) [or its negation]) onToggleSource(s) }):
\* the tests read the activeSources prop, the updates are applied to prev in order
ToggleEach(prev, group, k, activeSources, allActive) ==
    IF k > Len(group) THEN prev
    ELSE IF Includes(activeSources, group[k]) = allActive
         THEN ToggleEach(ToggleSource(prev, group[k]), group, k + 1, activeSources, allActive)
         ELSE ToggleEach(prev, group, k + 1, activeSources, allActive)

\* toggleAllModern / toggleAllHistorical
ToggleAll(group, activeSources) ==
    LET allActive == \A k \in 1..Len(group) : Includes(activeSources, group[k])
    IN  ToggleEach(activeSources, group, 1, activeSources, allActive)

\* Home after mount: the useState initial values and the effect that loads the recent searches
PageInit ==
    /\ pImages = <<>>
    /\ pLoading = FALSE
    /\ pError = ""
    /\ pSearchedLocation = ""
    /\ pActiveSources = InitialActiveSources
    /\ pStorage \in StoredSearches
    /\ pRecentSearches = (IF pStorage.saved THEN Parse(pStorage) ELSE <<>>)
    /\ pFetches = <<>>
    /\ pClicks = 0
    /\ HandlerOff /\ adapter = [s \in Sources |-> Idle] /\ response = NoResponse
    /\ DedupOff /\ TimelineOff /\ ScrapeOff /\ ConcurrentOff

\* handleSearch up to `await fetch(...)`
HandleSearch(loc) ==
    /\ pLoading' = TRUE
    /\ pError' = ""
    /\ pImages' = <<>>
    /\ pSearchedLocation' = loc
    /\ pRecentSearches' = AddRecentSearch(pRecentSearches, loc)
    /\ pStorage' = Stringify(AddRecentSearch(pRecentSearches, loc))
    /\ pFetches' = Append(pFetches, [location |-> loc, sources |-> JoinComma(pActiveSources)])
    /\ pClicks' = pClicks + 1
    /\ UNCHANGED <<pActiveSources, handlerVars, dedupVars, timelineVars, scrapeVars,
                   concurrentVars>>

\* <SearchForm onSearch={handleSearch} loading={loading} />: the form submits
\* a non-empty location while no search is loading
P_SubmitSearch(loc) ==
    /\ ~pLoading
    /\ HandleSearch(loc)

\* a recent search button: onClick={() => handleSearch(search)}
P_ClickRecent(loc) ==
    /\ Includes(pRecentSearches, loc)
    /\ HandleSearch(loc)

\* handleSearch after its awaits, for the i-th suspended call
P_Settle(i, outcome) ==
    /\ i \in 1..Len(pFetches)
    /\ outcome \in Outcomes(pFetches[i])
    /\ pFetches' = [k \in 1..(Len(pFetches) - 1) |-> IF k < i THEN pFetches[k] ELSE pFetches[k + 1]]
    /\ IF outcome.kind = "throw"
       THEN pError' = "Failed to search for images. Please try again." /\ UNCHANGED pImages
       ELSE IF outcome.error # ""
            THEN pError' = outcome.error /\ UNCHANGED pImages
            ELSE pImages' = outcome.images /\ UNCHANGED pError
    /\ pLoading' = FALSE
    /\ UNCHANGED <<pSearchedLocation, pActiveSources, pRecentSearches, pStorage, pClicks,
                   handlerVars, dedupVars, timelineVars, scrapeVars, concurrentVars>>

AllOutcomes == UNION {Outcomes([location |-> loc, sources |-> <<"google">>]) : loc \in PageLocations}

PNext ==
    \/ pClicks < MaxSearches /\ \E loc \in PageLocations : P_SubmitSearch(loc)
    \/ pClicks < MaxSearches /\ \E loc \in PageLocations : P_ClickRecent(loc)
    \/ \E i \in 1..MaxSearches, outcome \in AllOutcomes : P_Settle(i, outcome)

PageSpec == PageInit /\ [][PNext]_vars

\* a source button of SourceFilters
P_ToggleSource(source) ==
    /\ pActiveSources' = ToggleSource(pActiveSources, source)
    /\ pClicks' = pClicks + 1
    /\ UNCHANGED <<pImages, pLoading, pError, pSearchedLocation, pRecentSearches, pStorage,
                   pFetches, handlerVars, dedupVars, timelineVars, scrapeVars, concurrentVars>>

\* 'Toggle all' of the modern group
P_ToggleAllModern ==
    /\ pActiveSources' = ToggleAll(MODERN_SOURCES, pActiveSources)
    /\ pClicks' = pClicks + 1
    /\ UNCHANGED <<pImages, pLoading, pError, pSearchedLocation, pRecentSearches, pStorage,
                   pFetches, handlerVars, dedupVars, timelineVars, scrapeVars, concurrentVars>>

\* 'Toggle all' of the historical group
P_ToggleAllHistorical ==
    /\ pActiveSources' = ToggleAll(HISTORICAL_SOURCES, pActiveSources)
    /\ pClicks' = pClicks + 1
    /\ UNCHANGED <<pImages, pLoading, pError, pSearchedLocation, pRecentSearches, pStorage,
                   pFetches, handlerVars, dedupVars, timelineVars, scrapeVars, concurrentVars>>

FInit == PageInit /\ pStorage = NoItem

FNext ==
    \/ pClicks < MaxClicks /\ \E source \in ToggleChoices : P_ToggleSource(source)
    \/ pClicks < MaxClicks /\ P_ToggleAllModern
    \/ pClicks < MaxClicks /\ P_ToggleAllHistorical
    \/ pClicks < MaxClicks /\ P_SubmitSearch("Paris")
    \/ \E outcome \in AllOutcomes : P_Settle(1, outcome)

FilterSpec == FInit /\ [][FNext]_vars

(***************************************************************************)
(* Properties.                                                             *)
(***************************************************************************)
\* The canonical key of the specification: the url with everything from the
\* first '?' onward removed.
CanonicalUrl(url) ==
    LET c == url.chars
    IN  IF \E i \in 1..Len(c) : c[i] = "?"
        THEN SubSeq(c, 1, (CHOOSE i \in 1..Len(c) :
                              c[i] = "?" /\ \A j \in 1..(i - 1) : c[j] # "?") - 1)
        ELSE c

SameImage(a, b) == CanonicalUrl(a.url) = CanonicalUrl(b.url)

Count(list, x) == Cardinality({k \in 1..Len(list) : list[k] = x})

\* C1: no two records of the output of the deduplication step have the same
\* canonical key (url up to the first '?'), whatever the input list is.
C1_NoResidualDuplicates ==
    dpc = "done" =>
        \A i, j \in 1..Len(dOut) : i # j => ~SameImage(dOut[i], dOut[j])

\* the filter dropped a duplicate and kept several records
C1_Witness ==
    /\ dpc = "done"
    /\ Len(dOut) >= 2
    /\ Len(dOut) < Len(dIn)

\* C2 as stated: of any two input records with the same canonical url, the
\* earlier one is retained and the later one is dropped.
C2_EarlierRetained ==
    dpc = "done" =>
        \A i, j \in 1..Len(dIn) :
            (i < j /\ SameImage(dIn[i], dIn[j])) =>
                /\ Count(dOut, dIn[i]) = 1
                /\ Count(dOut, dIn[j]) = 0

\* C2 as amended: of any two input records with the same canonical url the
\* later one is dropped, and the earlier one is retained when no record
\* before it has that canonical url; the sources play no part.
C2_FirstOccurrenceWins ==
    dpc = "done" =>
        \A i, j \in 1..Len(dIn) :
            (i < j /\ SameImage(dIn[i], dIn[j])) =>
                /\ Count(dOut, dIn[j]) = 0
                /\ (\A k \in 1..(i - 1) : ~SameImage(dIn[k], dIn[i])) => Count(dOut, dIn[i]) = 1

\* a 'loc' record with ...?w=1 followed by a 'google' record with ...?w=2
\* gives exactly the 'loc' record
C2_Witness ==
    /\ dpc = "done"
    /\ Len(dIn) = 2
    /\ dIn[1].source = "loc" /\ dIn[1].url = Str(<<"x", "?", "w", "1">>)
    /\ dIn[2].source = "google" /\ dIn[2].url = Str(<<"x", "?", "w", "2">>)
    /\ dOut = <<dIn[1]>>

Returned(s) == adapter[s].st = "returned"

Failed(s) == adapter[s].st = "failed"

\* C3: when an adapter failed and others returned, the response is a success
\* that holds every record of the adapters that returned (one record per
\* canonical url) and no other; with one adapter A returning 2 records and
\* every other one failing, the response is A's 2 records with sources [A].
C3_AdapterIsolation ==
    (/\ hpc = "done"
     /\ \E s \in Sources : Failed(s)
     /\ \E s \in Sources : Returned(s)) =>
        /\ response.status = 200
        /\ \A s \in Sources : \A i \in 1..Len(adapter[s].images) :
              \E k \in 1..Len(response.images) :
                 SameImage(response.images[k], adapter[s].images[i])
        /\ \A k \in 1..Len(response.images) :
              \E s \in Sources : Returned(s) /\ Count(adapter[s].images, response.images[k]) = 1
        /\ \A a \in Sources :
              (/\ Returned(a)
               /\ Len(adapter[a].images) = 2
               /\ ~SameImage(adapter[a].images[1], adapter[a].images[2])
               /\ \A s \in Sources \ {a} : ~Returned(s)) =>
                  /\ Len(response.images) = 2
                  /\ Range(response.images) = Range(adapter[a].images)
                  /\ response.sources = <<a>>

\* C4: a request is answered by a success or, for a missing location, by
\* the input-validation failure; never by another failure.
C4_NoUpstreamFailure ==
    hpc = "done" =>
        \/ response.status = 200
        \/ response.status = 400 /\ location = ""

TimesListed(img) ==
    Cardinality({pk \in (1..Len(tPeriods)) \X (1..Len(tImages)) :
                    /\ pk[2] <= Len(tPeriods[pk[1]].images)
                    /\ tPeriods[pk[1]].images[pk[2]] = img})

\* C5: every record of a non-empty input is listed in exactly one period.
C5_Coverage ==
    (tpc = "rendered" /\ tImages # <<>>) =>
        \A i \in 1..Len(tImages) : TimesListed(tImages[i]) = 1

\* C6: a record is in the 'Modern / Unknown Date' period exactly when it has
\* no year (0 is a year).
C6_Disjointness ==
    tpc = "rendered" =>
        \A p \in 1..Len(tPeriods) : \A k \in 1..Len(tPeriods[p].images) :
            (tPeriods[p].label = UndatedLabel) <=> ~tPeriods[p].images[k].year.defined

\* C7: the periods are in non-increasing startYear order, the dated ones in
\* strictly descending order, and the 'Modern / Unknown Date' period carries
\* the current year as startYear and comes first.
C7_PeriodOrder ==
    tpc = "rendered" =>
        /\ \A p, q \in 1..Len(tPeriods) :
              p < q => /\ tPeriods[p].startYear >= tPeriods[q].startYear
                       /\ (tPeriods[p].label # UndatedLabel /\ tPeriods[q].label # UndatedLabel)
                             => tPeriods[p].startYear > tPeriods[q].startYear
        /\ \A p \in 1..Len(tPeriods) :
              tPeriods[p].label = UndatedLabel => (p = 1 /\ tPeriods[p].startYear = tNow)

\* years [2021, 1995, 1923, none] give Modern / Unknown Date, 2020s, 1990s, 1920s
C7_Witness ==
    /\ tpc = "rendered"
    /\ [i \in 1..Len(tImages) |-> tImages[i].year] = <<Year(2021), Year(1995), Year(1923), NoYear>>
    /\ [p \in 1..Len(tPeriods) |-> tPeriods[p].label] = <<UndatedLabel, "2020s", "1990s", "1920s">>

\* C8: the images of a successful response are a permutation of the
\* deduplicated list: every record occurs as often in the one as in the other.
C8_MixIsPermutation ==
    (hpc = "done" /\ response.status = 200) =>
        LET unique == Deduplicate(AllImages)
        IN  /\ Len(response.images) = Len(unique)
            /\ \A r \in Range(unique) \cup Range(response.images) :
                  Count(response.images, r) = Count(unique, r)

\* a response of three records in another order than the deduplicated list
C8_Witness ==
    /\ hpc = "done"
    /\ response.status = 200
    /\ Len(response.images) >= 3
    /\ response.images # Deduplicate(AllImages)

\* C9: once the response exists, every adapter call of the request has
\* returned or failed, and every requested known source was called.
C9_WaitsForAll ==
    (hpc = "done" /\ location # "") =>
        \A s \in Sources :
            /\ Invoked(s) => (Returned(s) \/ Failed(s))
            /\ Includes(RequestedSources(sourcesParam), s) => Invoked(s)

\* a success after one adapter returned records and another failed
C9_Witness ==
    /\ hpc = "done"
    /\ response.status = 200
    /\ \E s \in Sources : Returned(s) /\ adapter[s].images # <<>>
    /\ \E s \in Sources : Failed(s)

C11_RejectsEmptyLocation ==
    location = "" =>
        /\ \A s \in Sources : adapter[s].st = "idle"
        /\ searchPromises = <<>>
        /\ hpc = "done" =>
              /\ response.status = 400
              /\ response.error = "Location is required"
              /\ response.images = <<>>

\* a request without location that names sources has been answered
C11_Witness ==
    /\ location = ""
    /\ hpc = "done"
    /\ sourcesParam = <<"google", "loc">>
    /\ response.status = 400

\* C12: in an accepted request every requested known source has exactly one
\* adapter call, every other source none, also when its identifier is
\* repeated and after its call has failed or returned nothing.
C12_OneCallPerSource ==
    (hpc # "start" /\ location # "") =>
        \A s \in Sources :
            /\ Count(searchPromises, s) =
                  (IF Includes(RequestedSources(sourcesParam), s) THEN 1 ELSE 0)
            /\ Invoked(s) <=> Count(searchPromises, s) = 1

\* google is named twice, its one call has failed, and the response is out
C12_Witness ==
    /\ hpc = "done"
    /\ sourcesParam = <<"google", "nosuch", "google">>
    /\ Failed("google")
    /\ Count(searchPromises, "google") = 1

KnownOnly(ids) ==
    LET Known(id) == id \in Sources
    IN  SelectSeq(ids, Known)

DefaultIfEmpty(ids) == IF ids = <<>> THEN DefaultSources ELSE ids

ExpectedCalls(ids) ==
    LET Named(s) == Includes(ids, s)
    IN  SelectSeq(AdapterOrder, Named)

\* C13: unknown identifiers in the sources parameter cause no error, and the
\* adapters called are those of the request with the unknown identifiers
\* removed (the default subset when nothing else remains).
C13_UnknownAsAbsent ==
    (hpc # "start" /\ location # "") =>
        /\ response.status # 400
        /\ searchPromises = ExpectedCalls(DefaultIfEmpty(KnownOnly(sourcesParam)))

\* C14: without a sources parameter the adapters called are exactly google,
\* bing, flickr, unsplash, loc, wikimedia and archive.
C14_DefaultSubset ==
    (hpc # "start" /\ location # "" /\ sourcesParam = <<>>) =>
        /\ {s \in Sources : Invoked(s)} =
              {"google", "bing", "flickr", "unsplash", "loc", "wikimedia", "archive"}
        /\ Range(searchPromises) = {s \in Sources : Invoked(s)}

\* a request without sources parameter has been answered with records
C14_Witness ==
    /\ hpc = "done"
    /\ sourcesParam = <<>>
    /\ response.status = 200
    /\ Len(response.images) >= 1

\* C15: in a successful response count is the number of images, and sources
\* lists each source of an image once and nothing else, all of them
\* requested (or of the default subset).
C15_ResponseSummary ==
    (hpc = "done" /\ response.status = 200) =>
        /\ response.count = Len(response.images)
        /\ Range(response.sources) =
              {response.images[k].source : k \in 1..Len(response.images)}
        /\ Cardinality(Range(response.sources)) = Len(response.sources)
        /\ Range(response.sources) \subseteq Range(RequestedSources(sourcesParam))

\* three images of two sources, a third requested source having none
C15_Witness ==
    /\ hpc = "done"
    /\ response.status = 200
    /\ response.count = 3
    /\ Len(response.sources) = 2
    /\ \E s \in Sources : Invoked(s) /\ ~Includes(response.sources, s)

\* C16: deduplication is idempotent: the filter applied to its own output
\* returns that output unchanged.
C16_DedupIdempotent ==
    dpc = "twice" => dAgain = dOut

\* a list that lost a record in the first pass has gone through the second
C16_Witness ==
    /\ dpc = "twice"
    /\ Len(dOut) >= 2
    /\ Len(dOut) < Len(dIn)
    /\ dAgain = dOut

InRange(def, year) == year >= def.start /\ year <= def.end

\* C17: the ranges of the period table are pairwise disjoint, and every record
\* with a year that some table entry contains is listed in an output period
\* carrying the label, startYear and endYear of the first such entry.
C17_FirstMatchingPeriod ==
    tpc = "rendered" =>
        LET defs == PeriodDefs(tNow)
        IN  /\ \A j, k \in 1..Len(defs) :
                  j # k => (defs[j].end < defs[k].start \/ defs[k].end < defs[j].start)
            /\ \A i \in 1..Len(tImages) : \A k \in 1..Len(defs) :
                  ( /\ tImages[i].year.defined
                    /\ InRange(defs[k], tImages[i].year.val)
                    /\ \A j \in 1..(k - 1) : ~InRange(defs[j], tImages[i].year.val) )
                  => \E p \in 1..Len(tPeriods) :
                        /\ tPeriods[p].label = defs[k].label
                        /\ tPeriods[p].startYear = defs[k].start
                        /\ tPeriods[p].endYear = defs[k].end
                        /\ \E n \in 1..Len(tPeriods[p].images) : tPeriods[p].images[n] = tImages[i]

PosIn(images, img) == CHOOSE i \in 1..Len(images) : images[i] = img

SameYear(a, b) ==
    \/ ~a.year.defined /\ ~b.year.defined
    \/ a.year.defined /\ b.year.defined /\ a.year.val = b.year.val

\* C18: inside every period the years do not increase, records of equal year
\* (and the records without year) are in input order, and in sortedImages
\* every record with a year is before every record without one.
C18_OrderInsidePeriods ==
    tpc = "rendered" =>
        /\ \A p \in 1..Len(tPeriods) : \A a, b \in 1..Len(tPeriods[p].images) :
              a < b =>
                LET x == tPeriods[p].images[a]
                    y == tPeriods[p].images[b]
                IN  /\ (x.year.defined /\ y.year.defined) => x.year.val >= y.year.val
                    /\ SameYear(x, y) => PosIn(tImages, x) < PosIn(tImages, y)
        /\ \A a, b \in 1..Len(tSorted) :
              (tSorted[a].year.defined /\ ~tSorted[b].year.defined) => a < b

\* C19: every output period has at least one image, no two periods have the
\* same label (so there is at most one 'Modern / Unknown Date' period), and a
\* dated period is a table entry that holds only records of its own range.
C19_NoEmptyOrRepeatedPeriod ==
    tpc = "rendered" =>
        /\ \A p \in 1..Len(tPeriods) : Len(tPeriods[p].images) >= 1
        /\ \A p, q \in 1..Len(tPeriods) : p # q => tPeriods[p].label # tPeriods[q].label
        /\ Cardinality({p \in 1..Len(tPeriods) : tPeriods[p].label = UndatedLabel}) <= 1
        /\ \A p \in 1..Len(tPeriods) :
              tPeriods[p].label # UndatedLabel =>
                /\ \E k \in 1..Len(PeriodDefs(tNow)) : PeriodDefs(tNow)[k].label = tPeriods[p].label
                /\ \A n \in 1..Len(tPeriods[p].images) :
                      /\ tPeriods[p].images[n].year.defined
                      /\ tPeriods[p].images[n].year.val >= tPeriods[p].startYear
                      /\ tPeriods[p].images[n].year.val <= tPeriods[p].endYear

\* two records of one decade and two without year give two periods of two
C19_Witness ==
    /\ tpc = "rendered"
    /\ Len(tImages) = 4
    /\ Len(tPeriods) = 2
    /\ \A p \in 1..Len(tPeriods) : Len(tPeriods[p].images) = 2
    /\ \E p \in 1..Len(tPeriods) : tPeriods[p].label = "1990s"

\* C20: no two records of a successful response have the same id.
C20_UniqueIds ==
    (hpc = "done" /\ response.status = 200) =>
        \A i, j \in 1..Len(response.images) :
            i # j => response.images[i].id # response.images[j].id

\* a url that is there: neither undefined nor the empty string
HasUrl(url) == url.type # "undefined" /\ ~(url.type = "string" /\ url.chars = <<>>)

\* C21: no record leaves an adapter without a url, every merged record has a
\* non-empty url, and every url an adapter returned is still in the merged list.
C21_UrlPresent ==
    spc \in {"scraped", "merged", "threw"} =>
        /\ \A k \in 1..Len(sImages) : HasUrl(sImages[k].url)
        /\ spc = "merged" =>
              /\ \A j \in 1..Len(sMerged) :
                    sMerged[j].url.type = "string" /\ sMerged[j].url.chars # <<>>
              /\ \A k \in 1..Len(sImages) : \E j \in 1..Len(sMerged) :
                    SameImage(sMerged[j], sImages[k])

\* a Bing answer with a candidate without murl and one with murl has been merged
C21_Witness ==
    /\ spc = "merged"
    /\ sSource = "bing"
    /\ \E i \in 1..Len(sPage.iusc) : ~HasUrl(sPage.iusc[i])
    /\ Len(sImages) = 1
    /\ Len(sMerged) = 1

\* C23: a record of an archival source (loc, wikimedia, archive, nypl, maps)
\* or with a year before 2000 has isHistorical = true.
C23_HistoricalFlag ==
    spc \in {"scraped", "merged", "threw"} =>
        \A k \in 1..Len(sImages) :
            ( \/ sImages[k].source \in {"loc", "wikimedia", "archive", "nypl", "maps"}
              \/ (sImages[k].year.defined /\ sImages[k].year.val < 2000) )
            => sImages[k].isHistorical = Hist(TRUE)

\* C22: the answer of a call is that of the call alone: when its list has
\* only string urls it is answered 200 with exactly the first record of each
\* canonical url of its own list, whatever the other call has seen or answered.
C22_CallsIndependent ==
    \A r \in Calls :
        (cpc # <<>> /\ cpc[r] = "done" /\ \A k \in 1..Len(cImages[r]) : cImages[r][k].url.type = "string") =>
            /\ cOut[r].status = 200
            /\ \A k \in 1..Len(cImages[r]) :
                  Count(cOut[r].images, cImages[r][k]) =
                     (IF \E j \in 1..(k - 1) : SameImage(cImages[r][j], cImages[r][k]) THEN 0 ELSE 1)
            /\ \A k \in 1..Len(cOut[r].images) : \E j \in 1..Len(cImages[r]) :
                  cOut[r].images[k] = cImages[r][j]

\* both calls have answered, the second one returning a url the first one returned too
C22_Witness ==
    /\ cpc # <<>>
    /\ \A r \in Calls : cpc[r] = "done" /\ cOut[r].status = 200
    /\ \E k \in 1..Len(cOut[1].images) : \E j \in 1..Len(cOut[2].images) :
          SameImage(cOut[1].images[k], cOut[2].images[j])

\* the adapters' lists concatenated in the order of the sources.includes chain
FixedOrderConcat ==
    Flat([k \in 1..11 |->
            adapter[<<"google", "bing", "flickr", "unsplash", "zillow", "redfin",
                      "loc", "wikimedia", "archive", "nypl", "maps">>[k]].images])

PlaceOf(s) ==
    CHOOSE k \in 1..11 :
        <<"google", "bing", "flickr", "unsplash", "zillow", "redfin",
          "loc", "wikimedia", "archive", "nypl", "maps">>[k] = s

\* C24: the adapters are called in the fixed order google, bing, flickr,
\* unsplash, zillow, redfin, loc, wikimedia, archive, nypl, maps whatever the
\* order of the sources parameter, and of the records of one canonical url
\* the one answered is the first in the concatenation of the adapters' lists
\* in that order, whatever the order in which the adapters completed.
C24_FixedConcatenationOrder ==
    /\ \A i, j \in 1..Len(searchPromises) :
          i < j => PlaceOf(searchPromises[i]) < PlaceOf(searchPromises[j])
    /\ (hpc = "done" /\ response.status = 200) =>
          LET firsts == {k \in 1..Len(FixedOrderConcat) :
                            \A j \in 1..(k - 1) :
                                ~SameImage(FixedOrderConcat[j], FixedOrderConcat[k])}
          IN  /\ Len(response.images) = Cardinality(firsts)
              /\ \A k \in firsts : Count(response.images, FixedOrderConcat[k]) = 1

\* sources=bing,google: both return the same canonical url and google's record is answered
C24_Witness ==
    /\ hpc = "done"
    /\ response.status = 200
    /\ sourcesParam = <<"bing", "google">>
    /\ Len(adapter["bing"].images) = 1
    /\ Len(adapter["google"].images) = 1
    /\ SameImage(adapter["bing"].images[1], adapter["google"].images[1])
    /\ response.images = adapter["google"].images

RECURSIVE IsSubsequence(_, _)
IsSubsequence(sub, list) ==
    IF sub = <<>> THEN TRUE
    ELSE IF list = <<>> THEN FALSE
    ELSE IF Head(sub) = Head(list) THEN IsSubsequence(Tail(sub), Tail(list))
    ELSE IsSubsequence(sub, Tail(list))

\* C25: the output of the deduplication step is a subsequence of its input
\* (input records, unchanged, in input order), and the shuffled list holds
\* the same records as the list it was made from.
C25_FilterAndReorderOnly ==
    dpc \in {"done", "twice", "mixed"} =>
        /\ IsSubsequence(dOut, dIn)
        /\ dpc = "mixed" =>
              /\ Len(dMixed) = Len(dOut)
              /\ \A k \in 1..Len(dOut) : Count(dMixed, dOut[k]) = Count(dOut, dOut[k])

\* a list of three lost one record and its two remaining records were swapped
C25_Witness ==
    /\ dpc = "mixed"
    /\ Len(dIn) = 3
    /\ Len(dOut) = 2
    /\ dMixed = <<dOut[2], dOut[1]>>
    /\ dOut[1].url # Str(CanonicalUrl(dOut[1].url))

\* C26: when loading is false and images are displayed, they are the images
\* answered for searchedLocation.
C26_DisplayedForSearchedLocation ==
    (~pLoading /\ pImages # <<>>) =>
        \A k \in 1..Len(pImages) : pImages[k].for = pSearchedLocation

\* C27: the adapters called for a search are among the sources that were
\* active when it was started; none is called when none was active.
C27_OnlyActiveSources ==
    \A i \in 1..Len(pFetches) :
        InvokedFor(pFetches[i]) \subseteq Range(pFetches[i].sources)

\* C28: a settling search sets loading to false; when it settles with an
\* error, error is set and images are empty; when it settles with images,
\* error is null.
C28_SettledOutcome ==
    [][\A i \in 1..MaxSearches, outcome \in AllOutcomes :
          P_Settle(i, outcome) =>
              /\ pLoading' = FALSE
              /\ (outcome.kind = "throw" \/ outcome.error # "") =>
                     (pError' # "" /\ pImages' = <<>>)
              /\ (outcome.kind = "data" /\ outcome.error = "") => pError' = ""]_vars

NoRepeat(list) == \A i, j \in 1..Len(list) : list[i] = list[j] => i = j

IsPrefix(a, b) == Len(a) <= Len(b) /\ \A k \in 1..Len(a) : a[k] = b[k]

\* C29: the recent searches are at most MAX_RECENT_SEARCHES, without
\* repetition, and equal to what localStorage holds; a search puts its
\* location first and keeps the others in their order, dropping the last
\* ones beyond the maximum.
C29_RecentSearches ==
    /\ [](/\ Len(pRecentSearches) <= MAX_RECENT_SEARCHES
          /\ NoRepeat(pRecentSearches)
          /\ pStorage.saved => Parse(pStorage) = pRecentSearches
          /\ ~pStorage.saved => pRecentSearches = <<>>)
    /\ [][pClicks' # pClicks =>
            LET others == Without(pRecentSearches, pSearchedLocation')
            IN  /\ pRecentSearches' # <<>>
                /\ pRecentSearches'[1] = pSearchedLocation'
                /\ IsPrefix(Tail(pRecentSearches'), others)
                /\ Len(pRecentSearches') =
                       (IF Len(others) + 1 < MAX_RECENT_SEARCHES
                        THEN Len(others) + 1 ELSE MAX_RECENT_SEARCHES)
                /\ pStorage' = Stringify(pRecentSearches')]_vars

C29_Witness ==
    /\ pRecentSearches = <<"Rome", "Paris", "Oslo", "Lima", "Bonn">>
    /\ pStorage = Stringify(pRecentSearches)
    /\ pSearchedLocation = "Rome"

AllOf(group, active) == \A k \in 1..Len(group) : Includes(active, group[k])

NoneOf(group, active) == \A k \in 1..Len(group) : ~Includes(active, group[k])

SameMembers(group, a, b) == \A k \in 1..Len(group) : Includes(a, group[k]) = Includes(b, group[k])

ToggledAll(group, other) ==
    /\ IF AllOf(group, pActiveSources)
       THEN NoneOf(group, pActiveSources')
       ELSE AllOf(group, pActiveSources')
    /\ SameMembers(other, pActiveSources, pActiveSources')
    /\ NoRepeat(pActiveSources')

\* C30: 'Toggle all' of a group makes the whole group active when one of
\* its sources was inactive and the whole group inactive when all were
\* active, leaves the other group as it was and never puts a source twice
\* in activeSources.
C30_ToggleAll ==
    [][/\ P_ToggleAllModern => ToggledAll(MODERN_SOURCES, HISTORICAL_SOURCES)
       /\ P_ToggleAllHistorical => ToggledAll(HISTORICAL_SOURCES, MODERN_SOURCES)]_vars

C30_Witness ==
    /\ pClicks = 3
    /\ pActiveSources = <<"loc", "wikimedia", "archive", "nypl", "maps">>

====
